---- MODULE Spec2Model ----
(***************************************************************************)
(* Model of compressai/utils/plot/__main__.py: the RD-curve plotting       *)
(* utility.  parse_json_file is a pure function of (filepath, file         *)
(* content, metric); main is a sequential pipeline: parse the arguments,   *)
(* parse every result file in order, call one rendering backend.           *)
(*                                                                         *)
(* Conventions                                                             *)
(*  - a string the code takes apart (a file name, a series name) is a      *)
(*    sequence of one-character strings; a string the code only compares   *)
(*    (a key, a metric, a backend) is a TLA+ string;                       *)
(*  - a decoded JSON value is a record [t, v]: t its JSON type, v its      *)
(*    payload; a JSON object's payload is a function from its keys (the    *)
(*    order of the keys is not modelled);                                  *)
(*  - a number is an integer count of thousandths (900 is 0.9);            *)
(*  - a call's outcome is a record: it returns a value or raises.          *)
(***************************************************************************)
EXTENDS Integers, Sequences, FiniteSets, TLC

VARIABLES
    backends,   \* _backends after the module's imports
    fs,         \* the file system: file name -> content
    argv,       \* the command line, as argparse will see it
    pc,         \* position in main
    args,       \* the parsed arguments
    i,          \* index of the next element of args.results_file
    scatters,   \* main's list of series
    rv,         \* outcome of the last parse_json_file call
    exc,        \* the exception that ended main, or "none"
    opened,     \* the files opened so far, in order
    calls,      \* the renderer calls made so far, in order
    io          \* what the renderers did: files written, displays opened

vars == <<backends, fs, argv, pc, args, i, scatters, rv, exc, opened, calls, io>>

-----------------------------------------------------------------------------
(* Bounds *)

MaxLen == 2        \* longest metric sequence in a document
MaxFiles == 3      \* most result files on a command line

-----------------------------------------------------------------------------
(* Inputs *)

SeqsUpTo(S, n) == UNION {[1..k -> S] : k \in 0..n}

\* File names: a.j, b.j, a.b.j, a
FileNames == {<<"a", ".", "j">>, <<"b", ".", "j">>, <<"a", ".", "b", ".", "j">>, <<"a">>}

MetricKeys == {"bpp", "psnr", "msssim"}
Values == {0, 900}
ValSeqs == SeqsUpTo(Values, MaxLen)

JNull == [t |-> "null", v |-> <<>>]
JObject(f) == [t |-> "object", v |-> f]

DocNames == {<<"n">>}

ResultsValues ==
    {JNull} \cup {JObject(f) : f \in UNION {[K -> ValSeqs] : K \in SUBSET MetricKeys}}

\* Decoded documents: null, or an object with optional name and results.
Documents ==
    {JNull}
    \cup {JObject(<<>>)}
    \cup {JObject([name |-> n]) : n \in DocNames}
    \cup {JObject([results |-> r]) : r \in ResultsValues}
    \cup {JObject([name |-> n, results |-> r]) : n \in DocNames, r \in ResultsValues}

Absent == [t |-> "absent", v |-> <<>>]
Malformed == [t |-> "malformed", v |-> <<>>]
Contents == {Absent, Malformed} \cup Documents

-----------------------------------------------------------------------------
(* Outcomes of a call *)

NoSeries == [name |-> <<>>, xs |-> <<>>, ys |-> <<>>]
NoOutcome == [kind |-> "none", exc |-> "none", msg |-> "", avail |-> {},
              printed |-> FALSE, value |-> NoSeries]
Return(series) == [NoOutcome EXCEPT !.kind = "return", !.value = series]
Raise(type, msg) == [NoOutcome EXCEPT !.kind = "raise", !.exc = type, !.msg = msg]

-----------------------------------------------------------------------------
(* parse_json_file *)

\* str.split('.')[0]: the characters before the first '.'
RECURSIVE SplitFirst(_)
SplitFirst(s) ==
    IF s = <<>> \/ Head(s) = "." THEN <<>> ELSE <<Head(s)>> \o SplitFirst(Tail(s))

DefaultName_Whole(filename) == filename
DefaultName(filename) == SplitFirst(filename)

\* `key in value` raises TypeError for a value that is no container
IsContainer(j) == j.t = "object"
HasKey(j, key) == key \in DOMAIN j.v

AvailableMetrics_NoBpp(results) == DOMAIN results.v \ {"bpp"}
AvailableMetrics(results) == DOMAIN results.v

\* the checks of lines 34-41, in order: the outcome raised, or NoOutcome
Validate(data, metric) ==
    IF ~IsContainer(data) THEN Raise("TypeError", "not iterable")
    ELSE IF ~HasKey(data, "results") THEN Raise("ValueError", "invalid file")
    ELSE IF ~IsContainer(data.v["results"]) THEN Raise("TypeError", "not iterable")
    ELSE IF ~HasKey(data.v["results"], "bpp") THEN Raise("ValueError", "invalid file")
    ELSE IF ~HasKey(data.v["results"], metric)
        THEN [Raise("ValueError", "metric not available")
                 EXCEPT !.avail = AvailableMetrics(data.v["results"])]
    ELSE NoOutcome

NeedsDb_Always(metric) == TRUE
NeedsDb(metric) == metric = "msssim"

\* log10 of x thousandths, for x a power of ten from 0.001 to 1
Log10(x) == CHOOSE k \in -3..0 : x * 10^(-k) = 1000

\* -10 * np.log10(1 - values), elementwise; the result in thousandths
ToDb_Positive(values) ==
    [k \in 1..Len(values) |-> 10 * Log10(1000 - values[k]) * 1000]
ToDb_DropFirst(values) ==
    IF values = <<>> THEN <<>>
    ELSE Tail([k \in 1..Len(values) |-> -10 * Log10(1000 - values[k]) * 1000])
ToDb(values) ==
    [k \in 1..Len(values) |-> -10 * Log10(1000 - values[k]) * 1000]

\* data.get('name', name)
SeriesName(data, name) == IF HasKey(data, "name") THEN data.v["name"] ELSE name

parse_json_file(filepath, content, metric) ==
    LET name == DefaultName(filepath)
    IN  IF content.t = "absent" THEN Raise("FileNotFoundError", "no such file")
        ELSE IF content.t = "malformed"
            THEN [Raise("JSONDecodeError", "decode") EXCEPT !.printed = TRUE]
        ELSE LET data == content
                 bad == Validate(data, metric)
             IN  IF bad.kind = "raise" THEN bad
                 ELSE LET results ==
                              IF NeedsDb(metric)
                              THEN [data.v["results"].v EXCEPT ![metric] = ToDb(@)]
                              ELSE data.v["results"].v
                      IN  Return([name |-> SeriesName(data, name),
                                  xs |-> results["bpp"],
                                  ys |-> results[metric]])

-----------------------------------------------------------------------------
(* Specification of parse_json_file alone: one call on every input *)

InitParse ==
    /\ backends = <<"matplotlib">>
    /\ \E f \in FileNames, c \in Contents, m \in MetricKeys :
          /\ fs = [n \in {f} |-> c]
          /\ argv = [results_file |-> <<f>>, metric |-> m, output |-> "<None>",
                     backend |-> "<default>"]
          /\ args = [results_file |-> <<f>>, metric |-> m, output |-> "<None>",
                     backend |-> "matplotlib"]
    /\ pc = "loop"
    /\ i = 1
    /\ scatters = <<>>
    /\ rv = NoOutcome
    /\ exc = "none"
    /\ opened = <<>>
    /\ calls = <<>>
    /\ io = <<>>

ParseFile_SkipBad ==
    /\ pc = "loop"
    /\ i <= Len(args.results_file)
    /\ LET f == args.results_file[i]
           r == parse_json_file(f, fs[f], args.metric)
       IN  /\ opened' = Append(opened, f)
           /\ rv' = r
           /\ scatters' = IF r.kind = "raise" THEN scatters
                          ELSE Append(scatters, r.value)
           /\ i' = i + 1
    /\ UNCHANGED <<backends, fs, argv, args, calls, io, exc, pc>>

\* lines 149-151: one iteration of the loop over args.results_file
ParseFile ==
    /\ pc = "loop"
    /\ i <= Len(args.results_file)
    /\ LET f == args.results_file[i]
           r == parse_json_file(f, fs[f], args.metric)
       IN  /\ opened' = Append(opened, f)
           /\ rv' = r
           /\ IF r.kind = "raise"
              THEN /\ exc' = r.exc
                   /\ pc' = "raised"
                   /\ UNCHANGED <<scatters, i>>
              ELSE /\ scatters' = Append(scatters, r.value)
                   /\ i' = i + 1
                   /\ UNCHANGED <<exc, pc>>
    /\ UNCHANGED <<backends, fs, argv, args, calls, io>>

NextParse == ParseFile

SpecParse == InitParse /\ [][NextParse]_vars

-----------------------------------------------------------------------------
(* main *)

\* Result files on disk when main runs
MainNames == {<<"a", ".", "j">>, <<"b", ".", "j">>}
MainContents ==
    { Absent,
      Malformed,
      JObject([results |-> JObject([psnr |-> <<0>>])]),
      JObject([results |-> JObject([bpp |-> <<0, 900>>, psnr |-> <<900, 0>>])]),
      JObject([name |-> <<"n">>,
               results |-> JObject([bpp |-> <<0, 900>>, psnr |-> <<0, 0>>,
                                    msssim |-> <<900, 0>>])]) }

\* -o: absent (None), the empty string, or a path
Outputs == {"<None>", "", "rd.png"}
Truthy(s) == s \notin {"<None>", ""}

\* --backend: absent, or a name
BackendArgs == {"<default>", "matplotlib", "plotly", "bokeh"}

NoArgs == [results_file |-> <<>>, metric |-> "", output |-> "", backend |-> ""]

Init ==
    /\ backends \in {<<"matplotlib">>, <<"matplotlib", "plotly">>}
    /\ fs \in [MainNames -> MainContents]
    /\ argv \in [results_file : SeqsUpTo(MainNames, MaxFiles),
                 metric : {"psnr", "msssim"},
                 output : Outputs,
                 backend : BackendArgs]
    /\ pc = "main"
    /\ args = NoArgs
    /\ i = 1
    /\ scatters = <<>>
    /\ rv = NoOutcome
    /\ exc = "none"
    /\ opened = <<>>
    /\ calls = <<>>
    /\ io = <<>>

Range(s) == {s[k] : k \in 1..Len(s)}

\* choices=_backends: argparse accepts an absent option or a listed name
BackendAccepted_Any(b) == TRUE
BackendAccepted(b) == b = "<default>" \/ b \in Range(backends)

\* line 146, the invocation accepted
ParseArgs ==
    /\ pc = "main"
    /\ BackendAccepted(argv.backend)
    /\ args' = [argv EXCEPT !.backend = IF @ = "<default>" THEN backends[1] ELSE @]
    /\ pc' = "loop"
    /\ UNCHANGED <<backends, fs, argv, i, scatters, rv, exc, opened, calls, io>>

\* line 146, the invocation rejected: parser.error exits the process
RejectArgs ==
    /\ pc = "main"
    /\ ~BackendAccepted(argv.backend)
    /\ exc' = "SystemExit"
    /\ pc' = "exit"
    /\ UNCHANGED <<backends, fs, argv, args, i, scatters, rv, opened, calls, io>>

\* What a renderer does, in order
Write(path) == [op |-> "write", path |-> path]
Show == [op |-> "show", path |-> ""]

matplotlib_plt_ShowFirst(output_file) ==
    <<Show>> \o (IF Truthy(output_file) THEN <<Write(output_file)>> ELSE <<>>)
matplotlib_plt(output_file) ==
    (IF Truthy(output_file) THEN <<Write(output_file)>> ELSE <<>>) \o <<Show>>

plotly_plt(output_file) ==
    <<Write(IF Truthy(output_file) THEN output_file ELSE "plot.html")>>

\* lines 154-157: backend name -> rendering function
func_map_Fixed(backend) == "matplotlib_plt"
func_map(backend) ==
    IF backend = "matplotlib" THEN "matplotlib_plt" ELSE "plotly_plt"

Call(func, output_file) ==
    IF func = "matplotlib_plt" THEN matplotlib_plt(output_file)
    ELSE plotly_plt(output_file)

\* lines 153-162: the loop is over, the selected renderer is called
Render ==
    /\ pc = "loop"
    /\ i > Len(args.results_file)
    /\ LET func == func_map(args.backend)
       IN  /\ calls' = Append(calls, [func |-> func, scatters |-> scatters,
                                      ylabel |-> args.metric,
                                      output_file |-> args.output])
           /\ io' = io \o Call(func, args.output)
    /\ pc' = "done"
    /\ UNCHANGED <<backends, fs, argv, args, i, scatters, rv, exc, opened>>

Next == ParseArgs \/ RejectArgs \/ ParseFile \/ Render

Spec == Init /\ [][Next]_vars

-----------------------------------------------------------------------------
(* Vocabulary of the properties *)

\* the document has the key: it is an object and the key is one of its keys
KeyOf(j, key) == j.t = "object" /\ key \in DOMAIN j.v

Decodable(c) == c.t \notin {"absent", "malformed"}
WellFormed(c, metric) ==
    /\ KeyOf(c, "results")
    /\ KeyOf(c.v["results"], "bpp")
    /\ KeyOf(c.v["results"], metric)

\* a call of parse_json_file has been made; its file, content and metric
Parsed == rv.kind # "none"
LastFile == opened[Len(opened)]
LastDoc == fs[LastFile]
LastResults == LastDoc.v["results"].v

\* the outcome of parsing the k-th file of the command line
OutcomeOf(k) ==
    parse_json_file(argv.results_file[k], fs[argv.results_file[k]], argv.metric)
BadFiles == {k \in 1..Len(argv.results_file) : OutcomeOf(k).kind = "raise"}

Rejected == argv.backend # "<default>" /\ argv.backend \notin Range(backends)

IsWrite(e) == e.op = "write"
IsShow(e) == e.op = "show"
Writes == SelectSeq(io, IsWrite)
Shows == SelectSeq(io, IsShow)

\* pathlib's stem: the name without its final suffix
LastDot(s) == IF \E k \in 1..Len(s) : s[k] = "."
              THEN CHOOSE k \in 1..Len(s) : s[k] = "." /\ \A j \in (k+1)..Len(s) : s[j] # "."
              ELSE 0
Stem(s) == IF 1 < LastDot(s) /\ LastDot(s) < Len(s) THEN SubSeq(s, 1, LastDot(s) - 1) ELSE s

\* p is what precedes the first '.' of s
BeforeFirstDot(p, s) ==
    /\ Len(p) <= Len(s)
    /\ p = SubSeq(s, 1, Len(p))
    /\ \A k \in 1..Len(p) : p[k] # "."
    /\ Len(p) < Len(s) => s[Len(p) + 1] = "."

\* y thousandths is -10*log10(1 - x), x in thousandths
IsDbOf(y, x) == y >= 0 /\ y % 10000 = 0 /\ (1000 - x) * 10^(y \div 10000) = 1000

-----------------------------------------------------------------------------
(* Properties *)

\* C1: when parsing a file fails, main stops there: no renderer is called,
\* no file is written, no later file of the list is read; and whenever some
\* file of the list does not parse, no renderer ever runs and no file after
\* the first failing one is opened.
C1_AbortOnBadFile ==
    /\ (Parsed /\ rv.kind = "raise") =>
          /\ pc = "raised"
          /\ exc = rv.exc
          /\ calls = <<>>
          /\ io = <<>>
          /\ opened = SubSeq(args.results_file, 1, i)
          /\ ~ENABLED Next
    /\ \A k \in BadFiles : calls = <<>> /\ io = <<>> /\ Len(opened) <= k

\* C1 witness: the second file failed after the first parsed, a third unread
C1_Witness ==
    /\ pc = "raised"
    /\ Len(scatters) = 1
    /\ Len(opened) = 2
    /\ Len(args.results_file) = 3

\* C2: a backend that is not in _backends is rejected by argument parsing:
\* the process exits with nothing opened, nothing parsed and no renderer
\* called, whatever the result files are.
C2_RejectBackend ==
    (Rejected /\ pc # "main") =>
        /\ pc = "exit"
        /\ exc = "SystemExit"
        /\ opened = <<>>
        /\ rv = NoOutcome
        /\ scatters = <<>>
        /\ calls = <<>>
        /\ io = <<>>
        /\ ~ENABLED Next

\* C2 witness: plotly is requested but not importable, and a listed file
\* would not parse
C2_Witness ==
    /\ pc = "exit"
    /\ argv.backend = "plotly"
    /\ backends = <<"matplotlib">>
    /\ BadFiles # {}
    /\ Len(argv.results_file) >= 2

\* C3 (as claimed): a decodable document without a `results` key, or whose
\* `results` has no `bpp` key, makes parse_json_file raise ValueError and
\* return no series, for every requested metric.
C3_ValueErrorOnMissingKeys ==
    (Parsed /\ Decodable(LastDoc)
        /\ (~KeyOf(LastDoc, "results")
            \/ (KeyOf(LastDoc, "results") /\ ~KeyOf(LastDoc.v["results"], "bpp")))) =>
        /\ rv.kind = "raise"
        /\ rv.exc = "ValueError"
        /\ rv.value = NoSeries

\* C4: a document with results and bpp but without the requested metric
\* makes parse_json_file raise the "metric not available" error, whose list
\* of available metrics is exactly the key set of the document's results;
\* no series is returned.
C4_AvailableMetrics ==
    (Parsed /\ KeyOf(LastDoc, "results") /\ KeyOf(LastDoc.v["results"], "bpp")
        /\ ~KeyOf(LastDoc.v["results"], args.metric)) =>
        /\ rv.kind = "raise"
        /\ rv.exc = "ValueError"
        /\ rv.msg = "metric not available"
        /\ rv.avail = DOMAIN LastResults
        /\ rv.value = NoSeries

\* C4 witness: the metric is missing from a document with two other metrics
C4_Witness ==
    /\ Parsed
    /\ KeyOf(LastDoc, "results")
    /\ KeyOf(LastDoc.v["results"], "bpp")
    /\ DOMAIN LastResults = {"bpp", "psnr"}
    /\ args.metric = "msssim"
    /\ rv.kind = "raise"

\* C5: for a well-formed document and a requested metric other than msssim,
\* parse_json_file returns xs = the bpp sequence and ys = the metric's
\* sequence, unchanged (no decibel transform).
C5_PassThrough ==
    (Parsed /\ WellFormed(LastDoc, args.metric) /\ args.metric # "msssim") =>
        /\ rv.kind = "return"
        /\ rv.value.xs = LastResults["bpp"]
        /\ rv.value.ys = LastResults[args.metric]

\* C5 witness: psnr [0.9, 0] is returned beside bpp [0, 0.9], in a document
\* that also has msssim
C5_Witness ==
    /\ Parsed
    /\ WellFormed(LastDoc, args.metric)
    /\ args.metric = "psnr"
    /\ "msssim" \in DOMAIN LastResults
    /\ rv.kind = "return"
    /\ rv.value.ys = <<900, 0>>
    /\ rv.value.xs = <<0, 900>>

\* C6 (as claimed): every series parse_json_file returns has xs and ys of
\* equal length.
C6_EqualLength ==
    (Parsed /\ rv.kind = "return") => Len(rv.value.xs) = Len(rv.value.ys)

\* C6 (amended): a returned series has xs as long as the document's bpp
\* sequence and ys as long as the requested metric's sequence.
C6_LengthsPreserved ==
    (Parsed /\ rv.kind = "return") =>
        /\ WellFormed(LastDoc, args.metric)
        /\ Len(rv.value.xs) = Len(LastResults["bpp"])
        /\ Len(rv.value.ys) = Len(LastResults[args.metric])

\* C6 witness: a series is returned from sequences of lengths 2 and 1
C6_Witness ==
    /\ Parsed
    /\ rv.kind = "return"
    /\ args.metric = "msssim"
    /\ Len(rv.value.xs) = 2
    /\ Len(rv.value.ys) = 1

\* C7 (as claimed): the returned name is the document's name field, or,
\* without one, the stem of the file name (its final extension removed).
C7_NameIsStem ==
    (Parsed /\ rv.kind = "return") =>
        rv.value.name = IF KeyOf(LastDoc, "name") THEN LastDoc.v["name"]
                        ELSE Stem(LastFile)

\* C7 (amended): the returned name is the document's name field, or,
\* without one, the part of the file name before its first dot.
C7_NameBeforeFirstDot ==
    (Parsed /\ rv.kind = "return") =>
        IF KeyOf(LastDoc, "name") THEN rv.value.name = LastDoc.v["name"]
        ELSE BeforeFirstDot(rv.value.name, LastFile)

\* C7 witness: a.b.j without a name field yields the name a
C7_Witness ==
    /\ Parsed
    /\ rv.kind = "return"
    /\ ~KeyOf(LastDoc, "name")
    /\ LastFile = <<"a", ".", "b", ".", "j">>
    /\ rv.value.name = <<"a">>

\* C8: main calls at most one renderer, at most once; when it is done it has
\* called exactly the one the backend option names (matplotlib by default)
\* with one series per listed file, in command-line order; and when every
\* file parses and the backend is accepted it does not stop before that.
C8_OneBackend ==
    /\ Len(calls) <= 1
    /\ pc = "done" =>
          /\ Len(calls) = 1
          /\ calls[1].func = (IF argv.backend \in {"<default>", "matplotlib"}
                              THEN "matplotlib_plt" ELSE "plotly_plt")
          /\ calls[1].scatters =
                [k \in 1..Len(argv.results_file) |-> OutcomeOf(k).value]
          /\ ~ENABLED Next
    /\ (BadFiles = {} /\ ~Rejected /\ ~ENABLED Next) => pc = "done"

\* C8 witness: plotly has rendered the series of two different files
C8_Witness ==
    /\ pc = "done"
    /\ argv.backend = "plotly"
    /\ Len(calls[1].scatters) = 2
    /\ argv.results_file[1] # argv.results_file[2]
    /\ calls[1].scatters[1] # calls[1].scatters[2]

\* C9: for metric msssim, ys has the length of the document's msssim
\* sequence and its k-th element is -10*log10(1 - value) of the k-th value
\* (0.9 gives 10.0); xs is the unchanged bpp sequence.
C9_MsssimDb ==
    (Parsed /\ WellFormed(LastDoc, args.metric) /\ args.metric = "msssim") =>
        /\ rv.kind = "return"
        /\ rv.value.xs = LastResults["bpp"]
        /\ Len(rv.value.ys) = Len(LastResults["msssim"])
        /\ \A k \in 1..Len(rv.value.ys) :
              /\ LastResults["msssim"][k] = 900 => rv.value.ys[k] = 10000
              /\ IsDbOf(rv.value.ys[k], LastResults["msssim"][k])

\* C9 witness: msssim [0.9, 0] becomes [10.0, 0]
C9_Witness ==
    /\ Parsed
    /\ args.metric = "msssim"
    /\ rv.kind = "return"
    /\ LastResults["msssim"] = <<900, 0>>
    /\ rv.value.ys = <<10000, 0>>

\* C10: matplotlib_plt writes a file only when an output path is given, at
\* that path, and before it shows the figure; plotly_plt writes exactly one
\* file, at the output path or at plot.html when there is none (an empty
\* path counts as none), and shows nothing.
C10_FilesWritten ==
    pc = "done" =>
        IF calls[1].func = "matplotlib_plt"
        THEN /\ \A k \in 1..Len(Writes) :
                    argv.output # "<None>" /\ Writes[k].path = argv.output
             /\ Truthy(argv.output) => Len(Writes) = 1
             /\ Len(Shows) = 1
             /\ IsShow(io[Len(io)])
        ELSE /\ Len(Writes) = 1
             /\ Writes[1].path = (IF argv.output \in {"<None>", ""} THEN "plot.html"
                                  ELSE argv.output)
             /\ Shows = <<>>

\* C10 witness: matplotlib_plt has saved rd.png and then shown the figure
C10_Witness ==
    /\ pc = "done"
    /\ calls[1].func = "matplotlib_plt"
    /\ argv.output = "rd.png"
    /\ io = <<Write("rd.png"), Show>>

====
